---- MODULE Spec2Model ----
(***************************************************************************)
(* Model of anyseq/reduce.go: Batch.Reduce, Batch.Expand, the Seq-level    *)
(* Reduce node (forward pass and Propagate) and the Prune node.            *)
(*                                                                         *)
(* A Batch is a record [Packed, Present]: Packed is the flat vector (a     *)
(* sequence of numbers, 1-based here, 0-based offsets in the code) and     *)
(* Present the presence mask.  A call that panics yields a record whose    *)
(* err field carries the panic message; err = "none" is a normal return.   *)
(***************************************************************************)
EXTENDS Integers, Sequences, FiniteSets, TLC

\* ------------------------------------------------------------------ bounds
NSlots == 3        \* slots of a batch mask in the Batch-level runs
MaxWidth == 2      \* largest per-sequence width
MaxScale == 1      \* data vectors are k * scale, scale in 0..MaxScale
SeqSlots == 2      \* slots of a batch mask in the Seq-level runs
SeqWidth == 1      \* largest per-sequence width in the Seq-level runs
MaxSteps == 3      \* most timesteps of an input sequence

\* ----------------------------------------------------- vectors and batches
NoError == "none"
DivideByZero == "integer divide by zero"
CannotReAdd == "cannot re-add sequences"
NotSuperset == "argument to Expand must be a superset"

\* b.NumPresent(): the number of true entries of a mask.
NumPresent(present) == Cardinality({i \in 1..Len(present) : present[i]})

\* v.Slice(start, end): elements start..end-1, 0-based, as a new sequence.
Slice(v, start, end) == SubSeq(v, start + 1, end)

\* Creator().Concat(chunks...): the chunks one after another.
RECURSIVE Concat(_)
Concat(chunks) ==
    IF chunks = <<>> THEN <<>> ELSE Head(chunks) \o Concat(Tail(chunks))

\* Creator().MakeVector(n): n zeros.
MakeVector(n) == [k \in 1..n |-> 0]

\* A panic: the call returns no batch.
Panic(msg) == [err |-> msg, Packed |-> <<>>, Present |-> <<>>]

\* A normal return of a batch.
Return(packed, present) == [err |-> NoError, Packed |-> packed, Present |-> present]

\* ------------------------------------------------------------ Batch.Reduce
\* The flush of the pending chunk when a slot of b is dropped
\* (reduce.go lines 29-34): the new <<chunks, chunkStart>>.
ReduceDropMut(packed, chunks, chunkStart, chunkSize, inc) ==
    IF chunkSize > 0
    THEN <<Append(chunks, Slice(packed, chunkStart, chunkStart + chunkSize)),
           chunkStart + chunkSize>>
    ELSE <<chunks, chunkStart + inc>>

ReduceDrop(packed, chunks, chunkStart, chunkSize, inc) ==
    IF chunkSize > 0
    THEN <<Append(chunks, Slice(packed, chunkStart, chunkStart + chunkSize)),
           chunkStart + chunkSize + inc>>
    ELSE <<chunks, chunkStart + inc>>

\* The loop over present (lines 22-36) from index i on, then the final
\* flush (lines 37-39).
RECURSIVE ReduceLoop(_, _, _, _, _, _, _)
ReduceLoop(b, present, inc, i, chunks, chunkStart, chunkSize) ==
    IF i > Len(present)
    THEN [err |-> NoError,
          chunks |-> IF chunkSize > 0
                     THEN Append(chunks, Slice(b.Packed, chunkStart, chunkStart + chunkSize))
                     ELSE chunks]
    ELSE IF present[i]
    THEN IF ~b.Present[i]
         THEN [err |-> CannotReAdd, chunks |-> <<>>]
         ELSE ReduceLoop(b, present, inc, i + 1, chunks, chunkStart, chunkSize + inc)
    ELSE IF b.Present[i]
    THEN LET d == ReduceDrop(b.Packed, chunks, chunkStart, chunkSize, inc)
         IN  ReduceLoop(b, present, inc, i + 1, d[1], d[2], 0)
    ELSE ReduceLoop(b, present, inc, i + 1, chunks, chunkStart, chunkSize)

\* Batch.Reduce (lines 16-45).  inc := b.Packed.Len() / n is a Go integer
\* division: it panics when n is 0.
BatchReduce(b, present) ==
    LET n == NumPresent(b.Present) IN
    IF n = 0 THEN Panic(DivideByZero)
    ELSE LET inc == Len(b.Packed) \div n
             r == ReduceLoop(b, present, inc, 1, <<>>, 0, 0)
         IN  IF r.err # NoError THEN Panic(r.err)
             ELSE Return(Concat(r.chunks), present)

\* ------------------------------------------------------------ Batch.Expand
\* What is appended for a newly introduced slot (line 75).
ExpandFillMut(chunks, filler) == chunks

ExpandFill(chunks, filler) == Append(chunks, filler)

\* The loop over present (lines 63-77) from index i on, then the final
\* flush (lines 78-80).
RECURSIVE ExpandLoop(_, _, _, _, _, _, _, _)
ExpandLoop(b, present, inc, filler, i, chunks, chunkStart, chunkSize) ==
    IF i > Len(present)
    THEN [err |-> NoError,
          chunks |-> IF chunkSize > 0
                     THEN Append(chunks, Slice(b.Packed, chunkStart, chunkSize + chunkStart))
                     ELSE chunks]
    ELSE IF b.Present[i]
    THEN IF ~present[i]
         THEN [err |-> NotSuperset, chunks |-> <<>>]
         ELSE ExpandLoop(b, present, inc, filler, i + 1, chunks, chunkStart, chunkSize + inc)
    ELSE IF present[i]
    THEN IF chunkSize > 0
         THEN ExpandLoop(b, present, inc, filler, i + 1,
                         ExpandFill(Append(chunks, Slice(b.Packed, chunkStart, chunkStart + chunkSize)),
                                    filler),
                         chunkStart + chunkSize, 0)
         ELSE ExpandLoop(b, present, inc, filler, i + 1, ExpandFill(chunks, filler),
                         chunkStart, chunkSize)
    ELSE ExpandLoop(b, present, inc, filler, i + 1, chunks, chunkStart, chunkSize)

\* Batch.Expand (lines 55-86); the same integer division as in Reduce.
BatchExpand(b, present) ==
    LET n == NumPresent(b.Present) IN
    IF n = 0 THEN Panic(DivideByZero)
    ELSE LET inc == Len(b.Packed) \div n
             filler == MakeVector(inc)
             r == ExpandLoop(b, present, inc, filler, 1, <<>>, 0, 0)
         IN  IF r.err # NoError THEN Panic(r.err)
             ELSE Return(Concat(r.chunks), present)

\* A batch value (the Batch struct).
Batch(packed, present) == [Packed |-> packed, Present |-> present]

\* The batch returned by a call that did not panic.
AsBatch(r) == Batch(r.Packed, r.Present)

\* -------------------------------------------------------- Seq-level Reduce
\* p[i] = b && x.Present[i] (lines 106-109).
ReduceMask(present, x) == [i \in 1..Len(present) |-> present[i] /\ x.Present[i]]

\* The truncation test of line 111.
ReduceStopsMut(out) == FALSE

ReduceStops(out) == NumPresent(out.Present) = 0

\* The loop of lines 105-115 from timestep i on; out is res.Out so far.
RECURSIVE ReduceSteps(_, _, _, _)
ReduceSteps(in, present, i, out) ==
    IF i > Len(in) THEN [err |-> NoError, Out |-> out]
    ELSE LET r == BatchReduce(in[i], ReduceMask(present, in[i]))
         IN  IF r.err # NoError THEN [err |-> r.err, Out |-> <<>>]
             ELSE IF ReduceStops(r) THEN [err |-> NoError, Out |-> out]
             ELSE ReduceSteps(in, present, i + 1, Append(out, AsBatch(r)))

\* Reduce(s, present) (lines 102-117), in being s.Output(): the Out list of
\* the new reduceRes, or the panic that ends the call.
Reduce(in, present) == ReduceSteps(in, present, 1, <<>>)

\* The all-zero upstream batch of a truncated timestep (lines 138-141).
ZeroUpstreamMut(x) == Batch(MakeVector(Len(x.Packed)), [i \in 1..Len(x.Present) |-> FALSE])

ZeroUpstream(x) == Batch(MakeVector(Len(x.Packed)), x.Present)

\* reduceRes.Propagate (lines 131-144): the list newU handed to
\* r.In.Propagate, or the panic of an Expand.
Propagate(inOut, u) ==
    LET ex == [i \in 1..Len(u) |-> BatchExpand(u[i], inOut[i].Present)]
        bad == {i \in 1..Len(u) : ex[i].err # NoError}
    IN  IF bad # {}
        THEN [err |-> ex[CHOOSE i \in bad : \A j \in bad : i <= j].err, newU |-> <<>>]
        ELSE [err |-> NoError,
              newU |-> [i \in 1..Len(inOut) |->
                          IF i <= Len(u) THEN AsBatch(ex[i]) ELSE ZeroUpstream(inOut[i])]]

\* -------------------------------------------------------------------- Prune
\* newPres of lines 159-164: x.Present[j] for the slots j kept at timestep
\* 0, in slot order, from slot j on.
RECURSIVE PruneMaskMut(_, _, _)
PruneMaskMut(first, xPresent, j) ==
    IF j > Len(first) THEN <<>>
    ELSE IF ~first[j] THEN <<xPresent[j]>> \o PruneMaskMut(first, xPresent, j + 1)
    ELSE PruneMaskMut(first, xPresent, j + 1)

RECURSIVE PruneMask(_, _, _)
PruneMask(first, xPresent, j) ==
    IF j > Len(first) THEN <<>>
    ELSE IF first[j] THEN <<xPresent[j]>> \o PruneMask(first, xPresent, j + 1)
    ELSE PruneMask(first, xPresent, j + 1)

\* The batch built at line 165.
PruneBatchMut(first, x) == Batch(x.Packed, PruneMask(first, first, 1))

PruneBatch(first, x) == Batch(x.Packed, PruneMask(first, x.Present, 1))

\* Prune(s) (lines 152-168), sOut being s.Output(): the output list of the
\* returned Seq (s itself when it has no timesteps).
Prune(sOut) ==
    IF Len(sOut) = 0 THEN sOut
    ELSE [i \in 1..Len(sOut) |-> PruneBatch(sOut[1].Present, sOut[i])]

\* ------------------------------------------------------------------ inputs
Masks == [1..NSlots -> BOOLEAN]

\* Data vectors are ramps k * scale: the operations move elements and never
\* inspect them, so position-tagged data shows every selection and order.
Ramp(len, scale) == [k \in 1..len |-> k * scale]

\* The batches that satisfy Packed.length = width * count(Present, true).
Batches ==
    {Batch(Ramp(w * NumPresent(m), sc), m) :
        m \in Masks, w \in 0..MaxWidth, sc \in 0..MaxScale}

SeqMasks == [1..SeqSlots -> BOOLEAN]

MaskLists == UNION {[1..n -> SeqMasks] : n \in 0..MaxSteps}

\* The batch of timestep t: width w, data tagged by timestep and position.
StepBatch(m, w, t) == Batch([k \in 1..(w * NumPresent(m)) |-> 10 * t + k], m)

\* Input sequences: every batch satisfies the data-model invariant, masks
\* have equal length, one width per sequence.
Sequences ==
    {[t \in 1..Len(ms) |-> StepBatch(ms[t], w, t)] : ms \in MaskLists, w \in 0..SeqWidth}

\* An upstream gradient list shaped like the forward output out.
Upstream(out, g) == [t \in 1..Len(out) |-> Batch(Ramp(Len(out[t].Packed), g), out[t].Present)]

\* ------------------------------------------------------------------- state
VARIABLES
    pc,        \* which calls have been made
    b,         \* the Batch-level input batch
    arg,       \* the mask argument of the first call
    res,       \* result of the first Batch call
    res2,      \* result of the second Batch call, made on res
    s,         \* s.Output() of the input Seq
    node,      \* outcome of Reduce(s, arg): [err, Out]
    arg2,      \* the mask of a second Seq-level Reduce
    node2,     \* outcome of Reduce(Reduce(s, arg), arg2)
    u,         \* upstream batches given to Propagate
    sent,      \* outcome of Propagate: [err, newU]
    pruned,    \* Prune(s).Output()
    pruned2    \* Prune(Prune(s)).Output()

vars == <<pc, b, arg, res, res2, s, node, arg2, node2, u, sent, pruned, pruned2>>

None == <<>>

\* ------------------------------------------------------- Batch-level calls
InitBatch ==
    /\ pc = "start"
    /\ b \in Batches
    /\ arg = None /\ res = None /\ res2 = None
    /\ s = None /\ node = None /\ arg2 = None /\ node2 = None
    /\ u = None /\ sent = None /\ pruned = None /\ pruned2 = None

seqVars == <<s, node, arg2, node2, u, sent, pruned, pruned2>>

\* b.Reduce(present)
CallBatchReduce ==
    /\ pc = "start"
    /\ \E present \in Masks :
          /\ arg' = present
          /\ res' = BatchReduce(b, present)
    /\ pc' = "reduced"
    /\ UNCHANGED <<b, res2, seqVars>>

\* b.Expand(present)
CallBatchExpand ==
    /\ pc = "start"
    /\ \E present \in Masks :
          /\ arg' = present
          /\ res' = BatchExpand(b, present)
    /\ pc' = "expanded"
    /\ UNCHANGED <<b, res2, seqVars>>

\* b.Expand(present).Reduce(b.Present)
CallReduceBack ==
    /\ pc = "expanded"
    /\ res.err = NoError
    /\ res2' = BatchReduce(AsBatch(res), b.Present)
    /\ pc' = "expanded-reduced"
    /\ UNCHANGED <<b, arg, res, seqVars>>

\* b.Reduce(present).Expand(b.Present)
CallExpandBack ==
    /\ pc = "reduced"
    /\ res.err = NoError
    /\ res2' = BatchExpand(AsBatch(res), b.Present)
    /\ pc' = "reduced-expanded"
    /\ UNCHANGED <<b, arg, res, seqVars>>

NextBatch == CallBatchReduce \/ CallBatchExpand \/ CallReduceBack \/ CallExpandBack

SpecBatch == InitBatch /\ [][NextBatch]_vars

\* --------------------------------------------------------- Seq-level calls
InitSeq ==
    /\ pc = "start"
    /\ s \in Sequences
    /\ b = None /\ arg = None /\ res = None /\ res2 = None
    /\ node = None /\ arg2 = None /\ node2 = None
    /\ u = None /\ sent = None /\ pruned = None /\ pruned2 = None

\* Reduce(s, present)
CallReduce ==
    /\ pc = "start"
    /\ \E present \in SeqMasks :
          /\ arg' = present
          /\ node' = Reduce(s, present)
    /\ pc' = "reduced"
    /\ UNCHANGED <<b, res, res2, s, arg2, node2, u, sent, pruned, pruned2>>

\* Reduce(s, present).Propagate(u, grad)
CallPropagate ==
    /\ pc = "reduced"
    /\ node.err = NoError
    /\ \E g \in 0..MaxScale :
          /\ u' = Upstream(node.Out, g)
          /\ sent' = Propagate(s, Upstream(node.Out, g))
    /\ pc' = "propagated"
    /\ UNCHANGED <<b, arg, res, res2, s, node, arg2, node2, pruned, pruned2>>

NextSeq == CallReduce \/ CallPropagate

Spec == InitSeq /\ [][NextSeq]_vars

\* Reduce(Reduce(s, present), present2)
CallReduceAgain ==
    /\ pc = "reduced"
    /\ node.err = NoError
    /\ \E present \in SeqMasks :
          /\ arg2' = present
          /\ node2' = Reduce(node.Out, present)
    /\ pc' = "reduced-twice"
    /\ UNCHANGED <<b, arg, res, res2, s, node, u, sent, pruned, pruned2>>

NextCompose == CallReduce \/ CallReduceAgain

SpecCompose == InitSeq /\ [][NextCompose]_vars

\* ------------------------------------------------------------- Prune calls
\* Prune(s)
CallPrune ==
    /\ pc = "start"
    /\ pruned' = Prune(s)
    /\ pc' = "pruned"
    /\ UNCHANGED <<b, arg, res, res2, s, node, arg2, node2, u, sent, pruned2>>

\* Prune(Prune(s))
CallPruneAgain ==
    /\ pc = "pruned"
    /\ pruned2' = Prune(pruned)
    /\ pc' = "pruned-twice"
    /\ UNCHANGED <<b, arg, res, res2, s, node, arg2, node2, u, sent, pruned>>

NextPrune == CallPrune \/ CallPruneAgain

SpecPrune == InitSeq /\ [][NextPrune]_vars

\* ------------------------------------------------- vocabulary of the claims
\* present is a subset of super, slot by slot.
SubMask(present, super) == \A i \in 1..Len(present) : present[i] => super[i]

\* The number of present slots before slot i.
Before(present, i) == Cardinality({j \in 1..(i - 1) : present[j]})

\* per_sequence_width of a batch with a present slot (0 for an empty batch).
WidthOf(x) ==
    IF NumPresent(x.Present) = 0 THEN 0 ELSE Len(x.Packed) \div NumPresent(x.Present)

\* The chunk of slot i in batch x.
ChunkOf(x, i) ==
    SubSeq(x.Packed, WidthOf(x) * Before(x.Present, i) + 1,
                     WidthOf(x) * (Before(x.Present, i) + 1))

Zeros(n) == [k \in 1..n |-> 0]

\* The chunks of x for the slots of present, from slot i on, in slot order;
\* a slot that x lacks contributes WidthOf(x) zeros.
RECURSIVE ChunksFrom(_, _, _)
ChunksFrom(x, present, i) ==
    IF i > Len(present) THEN <<>>
    ELSE IF ~present[i] THEN ChunksFrom(x, present, i + 1)
    ELSE (IF x.Present[i] THEN ChunkOf(x, i) ELSE Zeros(WidthOf(x)))
         \o ChunksFrom(x, present, i + 1)

NonEmpty(x) == NumPresent(x.Present) > 0

C6_TotalUnderPreconditions ==
    /\ (pc = "reduced" /\ SubMask(arg, b.Present)) => res.err = NoError
    /\ (pc = "expanded" /\ SubMask(b.Present, arg)) => res.err = NoError

\* C7: Batch.Reduce(b, present) with present[i] true at a slot where
\* b.Present[i] is false ends in the abort "cannot re-add sequences", for
\* every batch b.
C7_ReAddAborts ==
    (pc = "reduced" /\ ~SubMask(arg, b.Present)) => res.err = CannotReAdd

\* C3: round trip: for every batch b that satisfies the data-model invariant
\* and every superset mask present, Reduce(Expand(b, present), b.Present)
\* returns a batch with b's Packed and b's Present.
C3_RoundTrip ==
    /\ (pc = "expanded" /\ SubMask(b.Present, arg)) => res.err = NoError
    /\ (pc = "expanded-reduced" /\ SubMask(b.Present, arg)) =>
          res2 = Return(b.Packed, b.Present)

\* The masks of a list of batches.
MasksOf(out) == [t \in 1..Len(out) |-> out[t].Present]

\* present AND x.Present, as the claims write it.
AndMask(p, q) == [i \in 1..Len(p) |-> p[i] /\ q[i]]

\* The first timestep of in whose mask, intersected with present, has no
\* true entry (Len(in) + 1 when there is none).
FirstEmpty(in, present) ==
    LET empty == {t \in 1..Len(in) : NumPresent(AndMask(present, in[t].Present)) = 0}
    IN  IF empty = {} THEN Len(in) + 1
        ELSE CHOOSE t \in empty : \A t2 \in empty : t <= t2

\* C1: Reduce(seq, present) truncates at the first fully-empty timestep: its
\* output is exactly Batch.Reduce(batch_t, present AND batch_t.Present) for
\* the timesteps before the first one whose intersected mask is empty; for
\* masks [{A,B},{A},{}] and a target mask of A and B it has 2 timesteps.
C1_ReduceTruncates ==
    pc = "reduced" =>
       /\ node.err = NoError
       /\ Len(node.Out) = FirstEmpty(s, arg) - 1
       /\ \A t \in 1..Len(node.Out) :
             node.Out[t] = AsBatch(BatchReduce(s[t], AndMask(arg, s[t].Present)))
       /\ (/\ MasksOf(s) = <<(<<TRUE, TRUE>>), (<<TRUE, FALSE>>), (<<FALSE, FALSE>>)>>
           /\ arg = <<TRUE, TRUE>>) => Len(node.Out) = 2

\* C2: adjoint shape of the Reduce node: Propagate, given one upstream batch
\* per emitted timestep shaped like the forward output, hands the input one
\* batch per input timestep, each with the input's mask and Packed length at
\* that timestep; the chunk of a slot the forward pass kept is the upstream
\* chunk of that slot, and the chunk of every dropped slot and of every slot
\* of a truncated timestep is all zero.
C2_AdjointShape ==
    pc = "propagated" =>
       /\ sent.err = NoError
       /\ Len(sent.newU) = Len(s)
       /\ \A t \in 1..Len(s) :
             /\ sent.newU[t].Present = s[t].Present
             /\ Len(sent.newU[t].Packed) = Len(s[t].Packed)
             /\ \A i \in 1..Len(s[t].Present) :
                   s[t].Present[i] =>
                      ChunkOf(sent.newU[t], i) =
                         IF t <= Len(u) /\ u[t].Present[i]
                         THEN ChunkOf(u[t], i)
                         ELSE Zeros(WidthOf(s[t]))

\* Propagate has run on a truncated output with a dropped slot and a
\* non-zero upstream gradient.
C2_Witness ==
    /\ pc = "propagated"
    /\ sent.err = NoError
    /\ 1 <= Len(u) /\ Len(u) < Len(s)
    /\ \E i \in 1..SeqSlots : s[1].Present[i] /\ ~u[1].Present[i]
    /\ WidthOf(s[1]) > 0
    /\ \E k \in 1..Len(u[1].Packed) : u[1].Packed[k] # 0
    /\ NonEmpty(s[Len(s)])

\* C10: Seq-level reductions compose by mask intersection: for an input whose
\* batches each have a present slot, Reduce(Reduce(s, p1), p2) and
\* Reduce(s, p1 AND p2) have the same output, batch for batch; and every
\* batch in the output of a Seq-level Reduce has a present slot.
C10_ReduceComposes ==
    /\ (pc = "reduced-twice" /\ \A t \in 1..Len(s) : NonEmpty(s[t])) =>
          /\ node2.err = NoError
          /\ node2 = Reduce(s, AndMask(arg, arg2))
    /\ (pc \in {"reduced", "reduced-twice"} /\ node.err = NoError) =>
          \A t \in 1..Len(node.Out) : NonEmpty(node.Out[t])
    /\ (pc = "reduced-twice" /\ node2.err = NoError) =>
          \A t \in 1..Len(node2.Out) : NonEmpty(node2.Out[t])

\* The second reduction truncates earlier than the first and drops a slot.
C10_Witness ==
    /\ pc = "reduced-twice"
    /\ \A t \in 1..Len(s) : NonEmpty(s[t])
    /\ node2.err = NoError
    /\ 1 <= Len(node2.Out) /\ Len(node2.Out) < Len(node.Out)
    /\ node2.Out[1].Present # node.Out[1].Present
    /\ Len(node2.Out[1].Packed) > 0

\* No slot is absent at timestep 0.
FullAtFirst(in) == Len(in) > 0 => \A j \in 1..Len(in[1].Present) : in[1].Present[j]

\* C8: Prune is idempotent on masks: a sequence with no slot absent at
\* timestep 0 comes back from Prune with every mask and every Packed
\* unchanged, and Prune(Prune(s)) has the output of Prune(s), batch for batch.
C8_PruneIdempotent ==
    /\ (pc = "pruned" /\ FullAtFirst(s)) => pruned = s
    /\ pc = "pruned-twice" => pruned2 = pruned

\* Prune has dropped a slot, a later mask differs from the first, and the
\* second Prune has run.
C8_Witness ==
    /\ pc = "pruned-twice"
    /\ Len(s) >= 2
    /\ ~FullAtFirst(s)
    /\ NonEmpty(pruned[1])
    /\ Len(pruned[1].Packed) > 0
    /\ pruned[2].Present # pruned[1].Present
    /\ pruned2 = pruned

\* Prune keeps every Packed and the number of true entries of every mask.
PruneKeepsCounts ==
    /\ Len(pruned) = Len(s)
    /\ \A t \in 1..Len(s) :
          /\ pruned[t].Packed = s[t].Packed
          /\ NumPresent(pruned[t].Present) = NumPresent(s[t].Present)
          /\ Len(pruned[t].Packed) = WidthOf(s[t]) * NumPresent(pruned[t].Present)

\* C9 as stated: for every input sequence whose batches satisfy the
\* data-model invariant with masks of equal length, every batch of
\* Prune(seq) has the input's Packed and as many true mask entries as the
\* input mask at that timestep.
C9_PruneKeepsInvariant == pc = "pruned" => PruneKeepsCounts

\* Every slot present at some timestep is present at timestep 0.
WithinFirst(in) == \A t \in 1..Len(in) : SubMask(in[t].Present, in[1].Present)

\* C9 amended: the same, for the input sequences in which every slot present
\* at some timestep is present at timestep 0.
C9_PruneKeepsInvariantWithinFirst ==
    (pc = "pruned" /\ WithinFirst(s)) => PruneKeepsCounts

\* Prune has dropped a slot from a sequence of two or more non-empty batches.
C9_Witness ==
    /\ pc = "pruned"
    /\ WithinFirst(s)
    /\ Len(s) >= 2
    /\ ~FullAtFirst(s)
    /\ NonEmpty(s[2])
    /\ Len(s[2].Packed) > 0
    /\ \E t \in 1..Len(s) : s[t].Present # s[1].Present
    /\ PruneKeepsCounts

====
